---- MODULE Spec2Model ----
(***************************************************************************)
(* Model of src/src/Video/detect_duplicate_videos.py: the duplicate-video  *)
(* detector (class DuplicateVideoDetector) and the command-line run        *)
(* (main).                                                                 *)
(*                                                                         *)
(* Conventions.                                                            *)
(*  - A file is identified by its path; paths are the positions 1..n of    *)
(*    the inventory self.video_files (rglob yields every path once).       *)
(*  - A Python dict is an insertion-ordered sequence of [key, files]       *)
(*    entries; a list of VideoFile objects is a sequence of paths.         *)
(*  - Durations are in hundredths of a second (ffprobe's 100.04 is         *)
(*    10004), the unknown sentinel -1.0 is -100.                           *)
(*  - Similarity ratios and thresholds are in hundredths (0.8 is 80).      *)
(***************************************************************************)
EXTENDS Integers, Sequences, FiniteSets, TLC

\* Largest inventory explored.
MaxFiles == 4

\* Largest number of delete_duplicates calls on one detection result.
MaxCalls == 2

\* Largest inventory of a command-line run.
MaxMainFiles == 3

\* Largest inventory of the runs with failing tools.
MaxFaultyFiles == 3

\* Largest inventory and number of detection calls of the repeated runs.
MaxRepeatFiles == 3

MaxRuns == 2

\* Largest inventory of the frame refinement runs.
MaxFrameFiles == 4

\* Longest frame sequence handed to calculate_frame_similarity directly.
MaxFrameLen == 3

VARIABLES
    video_files,    \* self.video_files: sequence of VideoFile records
    media,          \* what the disk and the external tools answer for a path
    exists,         \* the paths present on disk
    duplicates,     \* the dict returned by the detection method
    method_name,    \* the detection method that returned it ("" before any)
    params,         \* the thresholds that method was called with
    calls,          \* the delete_duplicates calls so far: what each did and returned
    args,           \* the parsed command line (main)
    all_duplicates, \* main's all_duplicates: method name -> dict
    target,         \* main's method_name and target_duplicates
    history,        \* the detection calls that returned, in order
    report,         \* the reports print_duplicates_report printed, in order
    sampled,        \* a direct call of calculate_frame_similarity: its two
                    \* frame sequences and, once called, what it returned
    pc              \* main's position ("api": the class is used directly);
                    \* "raised": an exception left the call; "waiting": the
                    \* call is inside a read or decode that does not return

vars == <<video_files, media, exists, duplicates, method_name, params, calls,
          args, all_duplicates, target, history, report, sampled, pc>>

----------------------------------------------------------------------------
(* Generic helpers                                                         *)

Range(s) == {s[i] : i \in 1..Len(s)}

Min2(a, b) == IF a <= b THEN a ELSE b

Max2(a, b) == IF a >= b THEN a ELSE b

Abs(x) == IF x < 0 THEN -x ELSE x

RECURSIVE SumSeq(_)
SumSeq(s) == IF s = <<>> THEN 0 ELSE Head(s) + SumSeq(Tail(s))

\* The positions 1..n as a sequence (enumerate).
Indices(n) == [i \in 1..n |-> i]

\* The first of the positions S, 0 when there is none: where a loop over
\* the inventory stops.
FirstIn(S) == IF S = {} THEN 0 ELSE CHOOSE i \in S : \A j \in S : i <= j

\* The inventory when a loop that turns vf into full stopped at position at.
Partial(vf, full, at) == [i \in 1..Len(vf) |-> IF i < at THEN full[i] ELSE vf[i]]

\* dict lookup helpers: position of a key, 0 when absent.
KeyPos(d, k) ==
    IF \E i \in 1..Len(d) : d[i].key = k
    THEN CHOOSE i \in 1..Len(d) : d[i].key = k
    ELSE 0

\* defaultdict(list): d[k].append(v).
DictAppend(d, k, v) ==
    IF KeyPos(d, k) = 0
    THEN Append(d, [key |-> k, files |-> <<v>>])
    ELSE [d EXCEPT ![KeyPos(d, k)].files = Append(@, v)]

RECURSIVE DictExtend(_, _, _)
DictExtend(d, k, vs) ==
    IF vs = <<>> THEN d ELSE DictExtend(DictAppend(d, k, Head(vs)), k, Tail(vs))

\* d[k] = v (plain assignment: an existing key is overwritten in place).
DictSet(d, k, v) ==
    IF KeyPos(d, k) = 0
    THEN Append(d, [key |-> k, files |-> v])
    ELSE [d EXCEPT ![KeyPos(d, k)].files = v]

\* {key: files for key, files in d.items() if len(files) > 1}
OnlyDuplicates(d) == SelectSeq(d, LAMBDA e : Len(e.files) > 1)

\* The entry of dict d that lists path p (0 when none does).
GroupsOf(d, p) == {i \in 1..Len(d) : p \in Range(d[i].files)}

----------------------------------------------------------------------------
(* VideoFile and the environment                                           *)

Unknown == -100

VideoFile(p, size, name) ==
    [path |-> p, size |-> size, name |-> name, hash_md5 |-> "", duration |-> Unknown]

\* sorted(files, key=lambda x: x.size, reverse=True): stable, so files of
\* equal size keep their order in the list.
\* A sort that is not stable: a file goes before the files of its own size.
RECURSIVE InsertBySizeUnstable(_, _, _)
InsertBySizeUnstable(vf, sorted, p) ==
    IF sorted = <<>> THEN <<p>>
    ELSE IF vf[Head(sorted)].size > vf[p].size
         THEN <<Head(sorted)>> \o InsertBySizeUnstable(vf, Tail(sorted), p)
         ELSE <<p>> \o sorted

RECURSIVE InsertBySize(_, _, _)
InsertBySize(vf, sorted, p) ==
    IF sorted = <<>> THEN <<p>>
    ELSE IF vf[Head(sorted)].size >= vf[p].size
         THEN <<Head(sorted)>> \o InsertBySize(vf, Tail(sorted), p)
         ELSE <<p>> \o sorted

RECURSIVE SortBySizeFrom(_, _, _)
SortBySizeFrom(vf, files, acc) ==
    IF files = <<>> THEN acc
    ELSE SortBySizeFrom(vf, Tail(files), InsertBySize(vf, acc, Head(files)))

SortedBySize(vf, files) == SortBySizeFrom(vf, files, <<>>)

----------------------------------------------------------------------------
(* calculate_file_hash, detect_by_size, detect_by_hash                     *)

\* The digest taken over the path instead of the content.
calculate_file_hash_of_path(m, ex, p) ==
    IF p \in ex /\ m[p].readable THEN ToString(p) ELSE ""

\* The except branch returning hasher.hexdigest(): the digest of no data.
calculate_file_hash_of_nothing(m, ex, p) ==
    IF p \in ex /\ m[p].readable THEN m[p].digest ELSE "d41d8"

\* open() raises OSError for a missing or unreadable file: "" is returned.
calculate_file_hash(m, ex, p) ==
    IF p \in ex /\ m[p].readable THEN m[p].digest ELSE ""

RECURSIVE SizeScan(_, _, _)
SizeScan(vf, i, size_groups) ==
    IF i > Len(vf) THEN size_groups
    ELSE SizeScan(vf, i + 1, DictAppend(size_groups, <<"size", vf[i].size>>, vf[i].path))

detect_by_size(vf) == OnlyDuplicates(SizeScan(vf, 1, <<>>))

\* The inventory after the hash pass: every file's hash_md5 is assigned.
HashedFiles(vf, m, ex) ==
    [i \in 1..Len(vf) |-> [vf[i] EXCEPT !.hash_md5 = calculate_file_hash(m, ex, vf[i].path)]]

\* The hash pass keyed by the file size.
RECURSIVE HashScanBySize(_, _, _)
HashScanBySize(vf, i, hash_groups) ==
    IF i > Len(vf) THEN hash_groups
    ELSE IF vf[i].hash_md5 # ""
         THEN HashScanBySize(vf, i + 1, DictAppend(hash_groups, <<"hash", vf[i].size>>, vf[i].path))
         ELSE HashScanBySize(vf, i + 1, hash_groups)

RECURSIVE HashScan(_, _, _)
HashScan(vf, i, hash_groups) ==
    IF i > Len(vf) THEN hash_groups
    ELSE IF vf[i].hash_md5 # ""
         THEN HashScan(vf, i + 1, DictAppend(hash_groups, <<"hash", vf[i].hash_md5>>, vf[i].path))
         ELSE HashScan(vf, i + 1, hash_groups)

detect_by_hash(vf, m, ex) == OnlyDuplicates(HashScan(HashedFiles(vf, m, ex), 1, <<>>))

\* f.read(chunk_size) on a file whose reads do not return: the loop has no
\* timer, so calculate_file_hash does not return either.
ReadHangs(m, ex, p) == p \in ex /\ m[p].read_hangs

\* How a call of a detection method ends: it returns its dict, an exception
\* leaves it, or it waits inside a call that does not return; with the
\* inventory as the call left it.
Run(ends, vf, d) ==
    [ends |-> ends, video_files |-> vf, duplicates |-> d,
     candidates |-> <<>>, extracted |-> <<>>, compared |-> <<>>]

SizeRun(vf) == Run("returned", vf, detect_by_size(vf))

HashRun(vf, m, ex) ==
    LET at == FirstIn({i \in 1..Len(vf) : ReadHangs(m, ex, vf[i].path)})
    IN  IF at > 0
        THEN Run("waiting", Partial(vf, HashedFiles(vf, m, ex), at), <<>>)
        ELSE Run("returned", HashedFiles(vf, m, ex), detect_by_hash(vf, m, ex))

----------------------------------------------------------------------------
(* delete_duplicates                                                       *)

\* os.remove(path): succeeds when the file is there and the process may
\* remove it; raises OSError otherwise.
\* An os.remove that does not fail for a file that is gone.
RemoveSucceedsOnMissing(ex, denied, p) == p \notin denied

RemoveSucceeds(ex, denied, p) == p \in ex /\ p \notin denied

\* The slice taken from 0: the largest file is marked too.
FilesToDeleteAll(vf, files) == SortedBySize(vf, files)

\* The slice that drops the last file instead of the first.
FilesToDeleteButLast(vf, files) ==
    SubSeq(SortedBySize(vf, files), 1, Len(files) - 1)

\* files_to_delete of one group: everything after the first of the files
\* sorted by size, largest first.
FilesToDelete(vf, files) == Tail(SortedBySize(vf, files))

FileToKeep(vf, files) == Head(SortedBySize(vf, files))

\* The kept/removed split of every group the loop handles.
DeletionPlan(vf, d) ==
    LET handled == SelectSeq(d, LAMBDA e : Len(e.files) > 1)
    IN  [i \in 1..Len(handled) |->
            [key    |-> handled[i].key,
             keep   |-> FileToKeep(vf, handled[i].files),
             remove |-> FilesToDelete(vf, handled[i].files)]]

RECURSIVE Flatten(_)
Flatten(ss) == IF ss = <<>> THEN <<>> ELSE Head(ss) \o Flatten(Tail(ss))

\* The loop with dry_run not consulted: every marked file is removed.
RECURSIVE RemoveLoopNoDry(_, _, _, _)
RemoveLoopNoDry(todo, dry_run, denied, st) ==
    IF todo = <<>> THEN st
    ELSE LET p == Head(todo) IN
         IF RemoveSucceeds(st.exists, denied, p)
         THEN RemoveLoopNoDry(Tail(todo), dry_run, denied,
                              [st EXCEPT !.exists = @ \ {p},
                                         !.attempts = Append(@, p),
                                         !.deleted_count = @ + 1])
         ELSE RemoveLoopNoDry(Tail(todo), dry_run, denied,
                              [st EXCEPT !.attempts = Append(@, p),
                                         !.failed_count = @ + 1])

\* The loop with the try around the whole loop: the first failure ends it.
RECURSIVE RemoveLoopAbort(_, _, _, _)
RemoveLoopAbort(todo, dry_run, denied, st) ==
    IF todo = <<>> THEN st
    ELSE LET p == Head(todo) IN
         IF dry_run
         THEN RemoveLoopAbort(Tail(todo), dry_run, denied,
                              [st EXCEPT !.deleted_count = @ + 1])
         ELSE IF RemoveSucceeds(st.exists, denied, p)
              THEN RemoveLoopAbort(Tail(todo), dry_run, denied,
                                   [st EXCEPT !.exists = @ \ {p},
                                              !.attempts = Append(@, p),
                                              !.deleted_count = @ + 1])
              ELSE [st EXCEPT !.attempts = Append(@, p), !.failed_count = @ + 1]

\* The inner loop over all groups in order: st carries the disk and the
\* two counters through the attempts.
RECURSIVE RemoveLoop(_, _, _, _)
RemoveLoop(todo, dry_run, denied, st) ==
    IF todo = <<>> THEN st
    ELSE LET p == Head(todo) IN
         IF dry_run
         THEN RemoveLoop(Tail(todo), dry_run, denied,
                         [st EXCEPT !.deleted_count = @ + 1])
         ELSE IF RemoveSucceeds(st.exists, denied, p)
              THEN RemoveLoop(Tail(todo), dry_run, denied,
                              [st EXCEPT !.exists = @ \ {p},
                                         !.attempts = Append(@, p),
                                         !.deleted_count = @ + 1])
              ELSE RemoveLoop(Tail(todo), dry_run, denied,
                              [st EXCEPT !.attempts = Append(@, p),
                                         !.failed_count = @ + 1])

TotalToDelete(d) ==
    SumSeq([i \in 1..Len(d) |-> IF Len(d[i].files) > 1 THEN Len(d[i].files) - 1 ELSE 0])

delete_duplicates(vf, d, dry_run, ex, denied) ==
    LET plan == DeletionPlan(vf, d)
        st0  == [exists |-> ex, attempts |-> <<>>, deleted_count |-> 0, failed_count |-> 0]
    IN  IF TotalToDelete(d) = 0
        THEN st0 @@ [dry_run |-> dry_run, plan |-> <<>>]
        ELSE RemoveLoop(Flatten([i \in 1..Len(plan) |-> plan[i].remove]),
                        dry_run, denied, st0)
             @@ [dry_run |-> dry_run, plan |-> plan]

----------------------------------------------------------------------------
(* print_duplicates_report                                                 *)

\* One printed group: its wasted space, taken from the size of the first
\* file of the list as the method returned it, and its lines, the files by
\* size descending, the first tagged as kept.
\* The lines of a group in the order the detection found its members.
ReportLinesAsFound(vf, files) ==
    [i \in 1..Len(files) |->
        [status |-> IF i = 1 THEN "keep" ELSE "duplicate", path |-> files[i]]]

\* The lines of a group: sorted_files, the first marked as kept and the
\* others as duplicates.
ReportLines(vf, files) ==
    [i \in 1..Len(files) |->
        [status |-> IF i = 1 THEN "keep" ELSE "duplicate",
         path |-> SortedBySize(vf, files)[i]]]

ReportGroup(vf, e) ==
    [key |-> e.key,
     wasted_space |-> vf[e.files[1]].size * (Len(e.files) - 1),
     lines |-> ReportLines(vf, e.files)]

\* What the report shows: nothing but a notice for an empty dict, else the
\* groups of more than one file and the two totals.
print_duplicates_report(vf, d, name) ==
    LET listed == SelectSeq(d, LAMBDA e : Len(e.files) > 1)
        groups == [i \in 1..Len(listed) |-> ReportGroup(vf, listed[i])]
    IN  IF d = <<>>
        THEN [method_name |-> name, found |-> FALSE, groups |-> <<>>,
              total_duplicates |-> 0, total_wasted_space |-> 0]
        ELSE [method_name |-> name, found |-> TRUE, groups |-> groups,
              total_duplicates |->
                  SumSeq([i \in 1..Len(listed) |-> Len(listed[i].files) - 1]),
              total_wasted_space |->
                  SumSeq([i \in 1..Len(groups) |-> groups[i].wasted_space])]

----------------------------------------------------------------------------
(* detect_by_name_similarity                                               *)

\* str.lower() on the letters the model's names use.
LowerChar(c) ==
    CASE c = "A" -> "a"
      [] c = "B" -> "b"
      [] c = "C" -> "c"
      [] OTHER   -> c

Lower(name) == [i \in 1..Len(name) |-> LowerChar(name[i])]

\* Length of the common run of a[i..ahi-1] and b[j..bhi-1] starting at i, j.
RECURSIVE CommonRun(_, _, _, _, _, _)
CommonRun(a, b, i, j, ahi, bhi) ==
    IF i >= ahi \/ j >= bhi \/ a[i] # b[j] THEN 0
    ELSE 1 + CommonRun(a, b, i + 1, j + 1, ahi, bhi)

\* SequenceMatcher.find_longest_match without junk: the longest block
\* a[i:i+k] == b[j:j+k] inside the windows, the one starting earliest in a
\* and, among those, earliest in b. Windows are [alo, ahi) and [blo, bhi).
find_longest_match(a, b, alo, ahi, blo, bhi) ==
    LET cands == {c \in (alo..(ahi - 1)) \X (blo..(bhi - 1)) :
                     CommonRun(a, b, c[1], c[2], ahi, bhi) > 0}
        Size(c) == CommonRun(a, b, c[1], c[2], ahi, bhi)
        Better(c, d) == \/ Size(c) > Size(d)
                        \/ Size(c) = Size(d) /\ c[1] < d[1]
                        \/ Size(c) = Size(d) /\ c[1] = d[1] /\ c[2] <= d[2]
    IN  IF cands = {} THEN <<alo, blo, 0>>
        ELSE LET best == CHOOSE c \in cands : \A d \in cands : Better(c, d)
             IN  <<best[1], best[2], Size(best)>>

\* SequenceMatcher.get_matching_blocks, summed: the longest block, then the
\* same to its left and to its right.
RECURSIVE MatchedChars(_, _, _, _, _, _)
MatchedChars(a, b, alo, ahi, blo, bhi) ==
    IF alo >= ahi \/ blo >= bhi THEN 0
    ELSE LET m == find_longest_match(a, b, alo, ahi, blo, bhi) IN
         IF m[3] = 0 THEN 0
         ELSE m[3] + MatchedChars(a, b, alo, m[1], blo, m[2])
                   + MatchedChars(a, b, m[1] + m[3], ahi, m[2] + m[3], bhi)

\* SequenceMatcher(None, a, b).ratio() >= threshold, i.e. 2M/T >= thr/100
\* (ratio() is 1.0 when both strings are empty).
RatioAtLeast(a, b, threshold) ==
    LET T == Len(a) + Len(b)
        M == MatchedChars(a, b, 1, Len(a) + 1, 1, Len(b) + 1)
    IN  IF T = 0 THEN 100 >= threshold ELSE 200 * M >= threshold * T

\* The comparison without lower().
NameSimilarCased(vf, i, j, threshold) ==
    RatioAtLeast(vf[i].name, vf[j].name, threshold)

NameSimilar(vf, i, j, threshold) ==
    RatioAtLeast(Lower(vf[i].name), Lower(vf[j].name), threshold)

\* The files the representative at position i collects: the later
\* positions not yet processed whose name is similar to its own.
\* An inner loop that does not skip the files already grouped.
NameJoinersAlsoProcessed(vf, i, processed, threshold) ==
    SelectSeq(Indices(Len(vf)), LAMBDA j : j > i /\ NameSimilar(vf, i, j, threshold))

NameJoiners(vf, i, processed, threshold) ==
    SelectSeq(Indices(Len(vf)),
              LAMBDA j : j > i /\ j \notin processed /\ NameSimilar(vf, i, j, threshold))

\* The outer loop. Keys are "group_<i>" with the 0-based position i.
RECURSIVE NameScan(_, _, _, _, _)
NameScan(vf, threshold, i, processed, similar_groups) ==
    IF i > Len(vf) THEN similar_groups
    ELSE IF i \in processed
         THEN NameScan(vf, threshold, i + 1, processed, similar_groups)
         ELSE LET joiners == NameJoiners(vf, i, processed, threshold)
                  paths   == [k \in 1..Len(joiners) |-> vf[joiners[k]].path]
              IN  NameScan(vf, threshold, i + 1,
                           processed \cup {i} \cup Range(joiners),
                           DictExtend(similar_groups, <<"group", i - 1>>,
                                      <<vf[i].path>> \o paths))

detect_by_name_similarity(vf, similarity_threshold) ==
    OnlyDuplicates(NameScan(vf, similarity_threshold, 1, {}, <<>>))

NameRun(vf, similarity_threshold) ==
    Run("returned", vf, detect_by_name_similarity(vf, similarity_threshold))

----------------------------------------------------------------------------
(* get_video_duration, detect_by_duration                                  *)

\* How subprocess.run(["ffprobe", ...], timeout=30) and the parsing of its
\* output can go:
\*   "ok"            exit 0 and {"format": {"duration": "<number>"}}
\*   "timeout"       the tool does not finish in 30 s: TimeoutExpired
\*   "not_installed" FileNotFoundError
\*   "os_error"      another OSError when starting it (PermissionError, ...)
\*   "exit_nonzero"  a non-zero return code
\*   "empty_output"  exit 0 and no output
\*   "bad_json"      json.loads raises JSONDecodeError
\*   "no_duration"   no "format" or no "duration" key
\*   "bad_duration"  a duration string float() rejects: ValueError
\*   "null_duration" a duration that is no string or number: TypeError
FfprobeOutcomes ==
    {"ok", "timeout", "not_installed", "os_error", "exit_nonzero", "empty_output",
     "bad_json", "no_duration", "bad_duration", "null_duration"}

\* The outcomes whose exception is in neither except clause.
RaisedByProbe == {"os_error", "null_duration"}

\* What happens for the path: a file that is gone makes the tool exit with
\* an error, when the tool starts at all.
Ffprobe(m, ex, p) ==
    IF p \notin ex /\ m[p].ffprobe \notin {"timeout", "not_installed", "os_error"}
    THEN "exit_nonzero"
    ELSE m[p].ffprobe

\* The value get_video_duration returns: the duration, or the sentinel when
\* the file is gone, the tool fails or times out, or its output is unusable.
get_video_duration(m, ex, p) == IF Ffprobe(m, ex, p) = "ok" THEN m[p].probe ELSE Unknown

\* The call ends with an exception instead of a value.
ProbeRaises(m, ex, p) == Ffprobe(m, ex, p) \in RaisedByProbe

\* f"{duration:.1f}": hundredths of a second rounded to tenths, an exact
\* tie going to the even tenth.
Fmt1(c) ==
    LET q == c \div 10
        r == c % 10
    IN  IF r < 5 THEN q
        ELSE IF r > 5 THEN q + 1
        ELSE IF q % 2 = 0 THEN q ELSE q + 1

\* The inventory after the probing loop: a duration is stored only when
\* the probe returned a positive one.
ProbedFiles(vf, m, ex) ==
    [i \in 1..Len(vf) |->
        IF get_video_duration(m, ex, vf[i].path) > 0
        THEN [vf[i] EXCEPT !.duration = get_video_duration(m, ex, vf[i].path)]
        ELSE vf[i]]

\* valid_files holding every file, probed or not.
ValidFilesAll(vf, m, ex) == Indices(Len(vf))

\* valid_files, as the inventory positions of its files in order.
ValidFiles(vf, m, ex) ==
    SelectSeq(Indices(Len(vf)), LAMBDA i : get_video_duration(m, ex, vf[i].path) > 0)

DurationClose(d1, d2, duration_tolerance) == Abs(d1 - d2) <= duration_tolerance

\* The members the representative valid[i] collects.
DurationJoiners(vf, valid, i, processed, duration_tolerance) ==
    SelectSeq(Indices(Len(valid)),
              LAMBDA j : /\ j > i
                         /\ j \notin processed
                         /\ DurationClose(vf[valid[i]].duration, vf[valid[j]].duration,
                                          duration_tolerance))

\* A key that also counts the calls made so far.
DurationKeyOfRun(d) == <<"duration", Fmt1(d) + Len(history)>>

\* The key of the group a representative opens.
DurationKey(d) == <<"duration", Fmt1(d)>>

\* The grouping loop over valid_files; vf is the probed inventory.
RECURSIVE DurationScan(_, _, _, _, _, _)
DurationScan(vf, valid, duration_tolerance, i, processed, duration_groups) ==
    IF i > Len(valid) THEN duration_groups
    ELSE IF i \in processed
         THEN DurationScan(vf, valid, duration_tolerance, i + 1, processed, duration_groups)
         ELSE LET joiners == DurationJoiners(vf, valid, i, processed, duration_tolerance)
                  paths   == [k \in 1..Len(joiners) |-> vf[valid[joiners[k]]].path]
              IN  DurationScan(vf, valid, duration_tolerance, i + 1,
                               processed \cup {i} \cup Range(joiners),
                               DictExtend(duration_groups,
                                          DurationKey(vf[valid[i]].duration),
                                          <<vf[valid[i]].path>> \o paths))

detect_by_duration(vf, m, ex, duration_tolerance) ==
    OnlyDuplicates(DurationScan(ProbedFiles(vf, m, ex), ValidFiles(vf, m, ex),
                                duration_tolerance, 1, {}, <<>>))

\* The probing loop calls get_video_duration outside any try: an exception
\* of a probe leaves detect_by_duration at that file.
DurationRun(vf, m, ex, duration_tolerance) ==
    LET at == FirstIn({i \in 1..Len(vf) : ProbeRaises(m, ex, vf[i].path)})
    IN  IF at > 0
        THEN Run("raised", Partial(vf, ProbedFiles(vf, m, ex), at), <<>>)
        ELSE Run("returned", ProbedFiles(vf, m, ex),
                 detect_by_duration(vf, m, ex, duration_tolerance))

----------------------------------------------------------------------------
(* extract_video_frames, calculate_frame_similarity,                       *)
(* detect_by_duration_and_frames                                           *)

\* The duration floor of extract_video_frames, in seconds.
MinFrameDuration == 10

\* The picture the decoder returns for frame k of the file (as a 64x64
\* grayscale thumbnail): the model's clips show one picture throughout.
FrameAt(m, p, k) == m[p].image

\* The extraction without the test of the floor.
extract_video_frames_no_floor(m, ex, p, extract_seconds) ==
    LET fps           == m[p].fps
        total_frames  == m[p].total_frames
        middle_frame  == total_frames \div 2
        target_frames == IF fps > 0 THEN fps * extract_seconds ELSE 150
        n             == Min2(Min2(target_frames, total_frames - middle_frame),
                              m[p].delivered)
    IN  IF p \notin ex \/ ~m[p].opens THEN <<>>
        ELSE [k \in 1..n |-> FrameAt(m, p, middle_frame + k - 1)]

\* middle_frames: empty when the file cannot be opened or is shorter than
\* the floor, else up to int(fps * extract_seconds) frames read from the
\* middle frame on. The loop ends early when cap.read() returns no frame
\* or raises: the frames read until then are returned in both cases.
extract_video_frames(m, ex, p, extract_seconds) ==
    LET fps           == m[p].fps
        total_frames  == m[p].total_frames
        middle_frame  == total_frames \div 2
        target_frames == IF fps > 0 THEN fps * extract_seconds ELSE 150
        n             == Min2(Min2(target_frames, total_frames - middle_frame),
                              m[p].delivered)
    IN  IF p \notin ex \/ ~m[p].opens THEN <<>>
        ELSE IF fps <= 0 \/ total_frames < MinFrameDuration * fps THEN <<>>
        ELSE [k \in 1..n |-> FrameAt(m, p, middle_frame + k - 1)]

\* cv2.matchTemplate(f1, f2, TM_CCOEFF_NORMED)[0][0] for two thumbnails,
\* in hundredths: 100 for the same picture, high for a re-encode of it,
\* low or negative for another picture.
Correlation(x, y) ==
    IF x = y THEN 100
    ELSE IF {x, y} = {1, 2} THEN 90
    ELSE IF {x, y} = {2, 3} THEN 40
    ELSE -20

\* matchTemplate raises for a thumbnail it cannot handle (picture 0).
MatchFails(x, y) == x = 0 \/ y = 0

\* The scores as they come from matchTemplate, nothing clamped.
FrameScoresUnclamped(frames1, frames2) ==
    [i \in 1..Min2(Len(frames1), Len(frames2)) |->
        IF MatchFails(frames1[i], frames2[i]) THEN 0
        ELSE Correlation(frames1[i], frames2[i])]

\* The per-pair scores over the shorter length: max(0, correlation), and
\* 0.0 for a pair whose comparison raised.
FrameScores(frames1, frames2) ==
    [i \in 1..Min2(Len(frames1), Len(frames2)) |->
        IF MatchFails(frames1[i], frames2[i]) THEN 0
        ELSE Max2(0, Correlation(frames1[i], frames2[i]))]

\* The mean of the scores as a fraction <<sum, count>> of hundredths;
\* 0.0 when either sequence is empty.
calculate_frame_similarity(frames1, frames2) ==
    IF frames1 = <<>> \/ frames2 = <<>> THEN <<0, 1>>
    ELSE <<SumSeq(FrameScores(frames1, frames2)), Len(FrameScores(frames1, frames2))>>

\* similarity >= frame_similarity_threshold
SimilarityAtLeast(sim, threshold) == sim[1] >= threshold * sim[2]

\* file_frames of one duration group: the members that yielded frames,
\* in the group's order.
FileFrames(m, ex, files, extract_seconds) ==
    SelectSeq(files, LAMBDA p : extract_video_frames(m, ex, p, extract_seconds) # <<>>)

\* An inner loop that skips only the representative itself.
ComparedWithEveryOther(ff, i, processed) ==
    SelectSeq(Indices(Len(ff)), LAMBDA j : j # i)

\* The positions the inner loop of representative ff[i] computes a
\* similarity for: those not in processed_files (ff[i] is in it already).
ComparedWith(ff, i, processed) ==
    SelectSeq(Indices(Len(ff)), LAMBDA j : ff[j] \notin processed)

\* The compared positions whose similarity reaches the threshold.
FrameJoiners(m, ex, ff, i, processed, threshold, extract_seconds) ==
    SelectSeq(ComparedWith(ff, i, processed),
              LAMBDA j : SimilarityAtLeast(
                             calculate_frame_similarity(
                                 extract_video_frames(m, ex, ff[i], extract_seconds),
                                 extract_video_frames(m, ex, ff[j], extract_seconds)),
                             threshold))

\* The comparison loop inside one duration group. out is frame_duplicates,
\* count is similar_group_count; the representative ff[i] is in processed
\* before its inner loop runs, so it is not compared with itself.
RECURSIVE FrameScan(_, _, _, _, _, _, _, _, _, _)
FrameScan(m, ex, group_key, ff, threshold, extract_seconds, i, processed, count, out) ==
    IF i > Len(ff) THEN out
    ELSE IF ff[i] \in processed
         THEN FrameScan(m, ex, group_key, ff, threshold, extract_seconds,
                        i + 1, processed, count, out)
         ELSE LET joiners == FrameJoiners(m, ex, ff, i, processed \cup {ff[i]},
                                          threshold, extract_seconds)
                  similar_files == <<ff[i]>> \o [k \in 1..Len(joiners) |-> ff[joiners[k]]]
              IN  IF Len(similar_files) > 1
                  THEN FrameScan(m, ex, group_key, ff, threshold, extract_seconds, i + 1,
                                 processed \cup Range(similar_files), count + 1,
                                 DictSet(out, group_key \o <<"frames", count>>, similar_files))
                  ELSE FrameScan(m, ex, group_key, ff, threshold, extract_seconds, i + 1,
                                 processed \cup {ff[i]}, count, out)

\* The loop over the duration candidates.
RECURSIVE FrameGroups(_, _, _, _, _, _, _)
FrameGroups(m, ex, candidates, g, threshold, extract_seconds, out) ==
    IF g > Len(candidates) THEN out
    ELSE IF Len(candidates[g].files) < 2
         THEN FrameGroups(m, ex, candidates, g + 1, threshold, extract_seconds, out)
         ELSE LET ff == FileFrames(m, ex, candidates[g].files, extract_seconds)
                  total_comparisons == (Len(ff) * (Len(ff) - 1)) \div 2
              IN  IF total_comparisons > 0
                  THEN FrameGroups(m, ex, candidates, g + 1, threshold, extract_seconds,
                                   FrameScan(m, ex, candidates[g].key, ff, threshold,
                                             extract_seconds, 1, {}, 0, out))
                  ELSE FrameGroups(m, ex, candidates, g + 1, threshold, extract_seconds, out)

detect_by_duration_and_frames(vf, m, ex, duration_tolerance, frame_similarity_threshold, extract_seconds) ==
    LET duration_candidates == detect_by_duration(vf, m, ex, duration_tolerance)
    IN  IF duration_candidates = <<>> THEN <<>>
        ELSE FrameGroups(m, ex, duration_candidates, 1, frame_similarity_threshold,
                         extract_seconds, <<>>)

\* The calls of calculate_frame_similarity of the comparison loop inside
\* one duration group, in order, as pairs <<path1, path2>>.
RECURSIVE ScanComparisons(_, _, _, _, _, _, _, _)
ScanComparisons(m, ex, ff, threshold, extract_seconds, i, processed, out) ==
    IF i > Len(ff) THEN out
    ELSE IF ff[i] \in processed
         THEN ScanComparisons(m, ex, ff, threshold, extract_seconds, i + 1, processed, out)
         ELSE LET others  == ComparedWith(ff, i, processed \cup {ff[i]})
                  joiners == FrameJoiners(m, ex, ff, i, processed \cup {ff[i]},
                                          threshold, extract_seconds)
              IN  ScanComparisons(m, ex, ff, threshold, extract_seconds, i + 1,
                                  processed \cup {ff[i]}
                                            \cup {ff[joiners[k]] : k \in 1..Len(joiners)},
                                  out \o [k \in 1..Len(others) |-> <<ff[i], ff[others[k]]>>])

\* The comparisons of a whole run, over the duration candidates.
RECURSIVE GroupComparisons(_, _, _, _, _, _, _)
GroupComparisons(m, ex, candidates, g, threshold, extract_seconds, out) ==
    IF g > Len(candidates) THEN out
    ELSE IF Len(candidates[g].files) < 2
         THEN GroupComparisons(m, ex, candidates, g + 1, threshold, extract_seconds, out)
         ELSE LET ff == FileFrames(m, ex, candidates[g].files, extract_seconds)
              IN  IF (Len(ff) * (Len(ff) - 1)) \div 2 > 0
                  THEN GroupComparisons(m, ex, candidates, g + 1, threshold, extract_seconds,
                                        ScanComparisons(m, ex, ff, threshold, extract_seconds,
                                                        1, {}, out))
                  ELSE GroupComparisons(m, ex, candidates, g + 1, threshold,
                                        extract_seconds, out)

\* A frame pass that opens every file of the inventory.
ExtractedForInventory(vf, candidates, g) == [i \in 1..Len(vf) |-> vf[i].path]

\* The calls of extract_video_frames of a run, in order: the files of the
\* duration candidates from candidate g on.
RECURSIVE ExtractedFor(_, _, _)
ExtractedFor(vf, candidates, g) ==
    IF g > Len(candidates) THEN <<>>
    ELSE IF Len(candidates[g].files) < 2 THEN ExtractedFor(vf, candidates, g + 1)
    ELSE candidates[g].files \o ExtractedFor(vf, candidates, g + 1)

\* cv2.VideoCapture(file_path) or cap.read() on a file whose decoding does
\* not return: no timer runs, and except Exception has nothing to catch.
DecodeHangs(m, ex, p) == p \in ex /\ m[p].decode_hangs

\* The files extract_video_frames is called for: the members of the
\* duration candidates.
DecodedFiles(candidates) == UNION {Range(candidates[g].files) : g \in 1..Len(candidates)}

FramesRun(vf, m, ex, duration_tolerance, frame_similarity_threshold, extract_seconds) ==
    LET first == DurationRun(vf, m, ex, duration_tolerance)
    IN  IF first.ends # "returned" THEN first
        ELSE IF \E p \in DecodedFiles(first.duplicates) : DecodeHangs(m, ex, p)
        THEN Run("waiting", first.video_files, <<>>)
        ELSE [Run("returned", first.video_files,
                  detect_by_duration_and_frames(vf, m, ex, duration_tolerance,
                                                frame_similarity_threshold, extract_seconds))
                 EXCEPT !.candidates = first.duplicates,
                        !.extracted = ExtractedFor(vf, first.duplicates, 1),
                        !.compared = GroupComparisons(m, ex, first.duplicates, 1,
                                                      frame_similarity_threshold,
                                                      extract_seconds, <<>>)]

----------------------------------------------------------------------------
(* The inventories and environments explored                               *)

\* What a path holds and what the tools answer for it.
Media(digest, readable, probe, opens, fps, total_frames, image) ==
    [digest |-> digest, readable |-> readable, probe |-> probe, opens |-> opens,
     fps |-> fps, total_frames |-> total_frames, image |-> image,
     ffprobe |-> IF probe = Unknown THEN "exit_nonzero" ELSE "ok",
     read_hangs |-> FALSE, decode_hangs |-> FALSE,
     delivered |-> total_frames, decode_raises |-> FALSE]

\* The same file with a decoder that delivers only so many frames from
\* the middle on and then returns no frame or raises.
Broken(m, delivered, decode_raises) ==
    [m EXCEPT !.delivered = delivered, !.decode_raises = decode_raises]

\* The same file with a prober, a read or a decoder that goes wrong.
Faulty(m, ffprobe, read_hangs, decode_hangs) ==
    [m EXCEPT !.ffprobe = ffprobe, !.read_hangs = read_hangs, !.decode_hangs = decode_hangs]

\* A file that is no playable video: the prober and the decoder fail.
NoVideo(digest, readable) == Media(digest, readable, Unknown, FALSE, 0, 0, 0)

File(size, name, m) == [size |-> size, name |-> name, media |-> m]

\* Copies: three contents, two of one size; one copy cannot be read.
CopyFiles ==
    {File(c[1], <<"a">>, NoVideo(c[2], c[3])) :
        c \in {<<2, "h1", TRUE>>, <<2, "h1", FALSE>>, <<2, "h2", TRUE>>, <<1, "h3", TRUE>>}}

\* Names: ratio("ab","abc") = ratio("abc","bc") = 0.8, ratio("ab","bc") = 0.5,
\* and "Ab" lower-cased is "ab"; the content goes with the size.
NameFiles ==
    {File(c[1], c[3], NoVideo(c[2], TRUE)) :
        c \in {<<2, "h1", <<"A", "b">>>>,
               <<1, "h3", <<"a", "b">>>>,
               <<2, "h1", <<"a", "b", "c">>>>,
               <<1, "h3", <<"b", "c">>>>}}

\* Clips: <<size, digest, probed duration, frames at 1 fps, picture>>:
\* clips of 100.00 s, 100.04 s, 102.50 s and 104.00 s, and a file the tools
\* cannot handle. (Clips under the floor are among FaultyFiles.)
ClipFiles ==
    {File(c[1], <<"a">>, Media(c[2], TRUE, c[3], TRUE, 1, c[4], c[5])) :
        c \in {<<2, "h1", 10000, 100, 1>>,
               <<2, "h2", 10004, 100, 3>>,
               <<1, "h4", 10250, 102, 2>>,
               <<3, "h5", 10400, 104, 2>>}}
    \cup {File(2, <<"a">>, NoVideo("h6", TRUE))}

Inventories(choices) ==
    UNION {[1..n -> choices] : n \in 1..MaxFiles}

\* The thresholds the methods are called with.
SimilarityThresholds == {80}

DurationTolerances == {1, 300}

FrameThresholds == {80}

ExtractSeconds == {5}

NoArgs == [method |-> "", delete |-> FALSE, dry_run |-> FALSE]

\* target_duplicates = None, method_name = "".
NoTarget == [method_name |-> "", duplicates |-> <<>>]

\* The thresholds of a call, 0 where the method takes none.
Params(similarity, duration_tolerance, frame_similarity, extract_seconds) ==
    [similarity |-> similarity, duration_tolerance |-> duration_tolerance,
     frame_similarity |-> frame_similarity, extract_seconds |-> extract_seconds]

\* The detector after __init__ and scan_video_files over a directory
\* holding the files of inv.
Scanned(inv) ==
    /\ video_files = [p \in 1..Len(inv) |-> VideoFile(p, inv[p].size, inv[p].name)]
    /\ media = [p \in 1..Len(inv) |-> inv[p].media]
    /\ exists = 1..Len(inv)
    /\ duplicates = <<>>
    /\ method_name = ""
    /\ params = Params(0, 0, 0, 0)
    /\ calls = <<>>
    /\ history = <<>>
    /\ report = <<>>
    /\ sampled = [frames1 |-> <<>>, frames2 |-> <<>>, called |-> FALSE, value |-> <<0, 1>>]

Init ==
    /\ \E choices \in {CopyFiles, NameFiles, ClipFiles} :
          \E inv \in Inventories(choices) : Scanned(inv)
    /\ args = NoArgs
    /\ all_duplicates = <<>>
    /\ target = NoTarget
    /\ pc = "api"

----------------------------------------------------------------------------
(* The detector's methods as actions                                       *)

mainVars == <<args, all_duplicates, target, report, pc>>

\* A detection call ends. When it returns, its dict becomes the current
\* result; when an exception leaves it or it waits forever, the caller gets
\* no result and only the inventory shows how far the call came.
Ended(name, r, ps) ==
    IF r.ends = "returned"
    THEN /\ duplicates' = r.duplicates
         /\ method_name' = name
         /\ params' = ps
         /\ video_files' = r.video_files
         /\ history' = Append(history, [method_name |-> name, params |-> ps,
                                         duplicates |-> r.duplicates,
                                         candidates |-> r.candidates,
                                         extracted |-> r.extracted,
                                         compared |-> r.compared])
         /\ UNCHANGED <<media, sampled, exists, calls, mainVars>>
    ELSE /\ pc' = r.ends
         /\ video_files' = r.video_files
         /\ UNCHANGED <<media, sampled, exists, duplicates, method_name, params, calls, history,
                         args, all_duplicates, target, report>>

\* The first detection call on a fresh detector.
Detected(name, r, ps) ==
    /\ pc = "api"
    /\ method_name = ""
    /\ Ended(name, r, ps)

DetectBySize ==
    Detected("size", SizeRun(video_files), Params(0, 0, 0, 0))

DetectByHash ==
    Detected("hash", HashRun(video_files, media, exists), Params(0, 0, 0, 0))

DetectByNameSimilarity ==
    \E t \in SimilarityThresholds :
        Detected("name", NameRun(video_files, t), Params(t, 0, 0, 0))

DetectByDurationWith(tols) ==
    \E tol \in tols :
        Detected("duration", DurationRun(video_files, media, exists, tol),
                 Params(0, tol, 0, 0))

DetectByDuration == DetectByDurationWith(DurationTolerances)

DetectByDurationAndFramesWith(tols, thresholds, windows) ==
    \E tol \in tols, t \in thresholds, w \in windows :
        Detected("frames", FramesRun(video_files, media, exists, tol, t, w),
                 Params(0, tol, t, w))

DetectByDurationAndFrames ==
    DetectByDurationAndFramesWith(DurationTolerances, FrameThresholds, ExtractSeconds)

\* The paths a call may be refused to remove: none, or one of the files.
DeniedChoices == {{}} \cup {{p} : p \in 1..Len(video_files)}

\* A call that is made in real mode whatever dry_run says.
ResolveForReal(d, dry_run, denied) ==
    LET r == delete_duplicates(video_files, d, FALSE, exists, denied)
    IN  /\ exists' = r.exists
        /\ calls' = Append(calls,
                       [dry_run |-> r.dry_run, plan |-> r.plan, attempts |-> r.attempts,
                        deleted_count |-> r.deleted_count,
                        failed_count |-> r.failed_count,
                        before |-> exists, after |-> r.exists])

\* One call of delete_duplicates on dict d: the disk changes and the call
\* is recorded with the disk before and after it.
Resolve(d, dry_run, denied) ==
    LET r == delete_duplicates(video_files, d, dry_run, exists, denied)
    IN  /\ exists' = r.exists
        /\ calls' = Append(calls,
                       [dry_run |-> r.dry_run, plan |-> r.plan, attempts |-> r.attempts,
                        deleted_count |-> r.deleted_count,
                        failed_count |-> r.failed_count,
                        before |-> exists, after |-> r.exists])

DeleteDuplicates ==
    /\ pc = "api"
    /\ method_name # ""
    /\ calls = <<>>
    /\ \E dry_run \in BOOLEAN, denied \in DeniedChoices :
          /\ dry_run => denied = {}
          /\ Resolve(duplicates, dry_run, denied)
    /\ UNCHANGED <<video_files, media, sampled, duplicates, method_name, params, history, mainVars>>

\* A further call on the same result.
DeleteDuplicatesAgain ==
    /\ pc = "api"
    /\ calls # <<>>
    /\ Len(calls) < MaxCalls
    /\ \E dry_run \in BOOLEAN, denied \in DeniedChoices :
          /\ dry_run => denied = {}
          /\ Resolve(duplicates, dry_run, denied)
    /\ UNCHANGED <<video_files, media, sampled, duplicates, method_name, params, history, mainVars>>

\* The detector used directly: one detection method, then the resolver on
\* its result.
Next ==
    \/ DetectBySize
    \/ DetectByHash
    \/ DetectByNameSimilarity
    \/ DetectByDuration
    \/ DetectByDurationAndFrames
    \/ DeleteDuplicates

Spec == Init /\ [][Next]_vars

\* The resolver called repeatedly on the groups of one name-similarity pass.
InitResolve ==
    /\ \E inv \in Inventories(NameFiles) : Scanned(inv)
    /\ args = NoArgs
    /\ all_duplicates = <<>>
    /\ target = NoTarget
    /\ pc = "api"

NextResolve ==
    \/ DetectByNameSimilarity
    \/ DeleteDuplicates
    \/ DeleteDuplicatesAgain

SpecResolve == InitResolve /\ [][NextResolve]_vars

----------------------------------------------------------------------------
(* The detector on files the tools fail for                                *)

\* A 100 s clip for which the prober goes wrong in each way, or the read or
\* the decoder does not return; an 8 s clip under the floor; and a clip the
\* prober calls 100 s long of which the decoder finds 8 frames.
FaultyFiles ==
    LET clip == Media("h1", TRUE, 10000, TRUE, 1, 100, 1)
    IN  {File(2, <<"a">>, Faulty(clip, o, FALSE, FALSE)) : o \in FfprobeOutcomes}
        \cup {File(2, <<"a">>, Faulty(clip, "ok", TRUE, FALSE)),
              File(2, <<"a">>, Faulty(clip, "ok", FALSE, TRUE)),
              File(1, <<"a">>, Media("h3", TRUE, 800, TRUE, 1, 8, 1)),
              File(1, <<"a">>, Media("h7", TRUE, 10000, TRUE, 1, 8, 1))}

\* The thresholds of these runs: the defaults of the tolerance, and a frame
\* threshold every similarity reaches beside the default.
FaultyTolerances == {300}

AnyFrameThresholds == {0, 80}

InitFaulty ==
    /\ \E inv \in UNION {[1..n -> FaultyFiles] : n \in 1..MaxFaultyFiles} : Scanned(inv)
    /\ args = NoArgs
    /\ all_duplicates = <<>>
    /\ target = NoTarget
    /\ pc = "api"

ProbeByDuration == DetectByDurationWith(FaultyTolerances)

ProbeByDurationAndFrames ==
    DetectByDurationAndFramesWith(FaultyTolerances, AnyFrameThresholds, ExtractSeconds)

NextFaulty ==
    \/ DetectBySize
    \/ DetectByHash
    \/ DetectByNameSimilarity
    \/ ProbeByDuration
    \/ ProbeByDurationAndFrames

SpecFaulty == InitFaulty /\ [][NextFaulty]_vars

----------------------------------------------------------------------------
(* The clustering methods called repeatedly                                *)

\* Clips with names: "ab", "abc" and "bc" as in NameFiles, durations of
\* 100.00 s, 100.04 s and 102.50 s, a file that is no video and a clip the
\* prober times out on.
RepeatFiles ==
    {File(2, <<"a", "b">>, Media("h1", TRUE, 10000, TRUE, 1, 100, 1)),
     File(2, <<"a", "b", "c">>, Media("h2", TRUE, 10004, TRUE, 1, 100, 3)),
     File(1, <<"b", "c">>, Media("h4", TRUE, 10250, TRUE, 1, 102, 2)),
     File(2, <<"a", "b">>, NoVideo("h6", TRUE)),
     File(2, <<"a", "b", "c">>,
          Faulty(Media("h1", TRUE, 10000, TRUE, 1, 100, 1), "timeout", FALSE, FALSE))}

InitRepeat ==
    /\ \E inv \in UNION {[1..n -> RepeatFiles] : n \in 1..MaxRepeatFiles} : Scanned(inv)
    /\ args = NoArgs
    /\ all_duplicates = <<>>
    /\ target = NoTarget
    /\ pc = "api"

\* A further detection call on the same detector, nothing deleted between.
DetectedAgain(name, r, ps) ==
    /\ pc = "api"
    /\ method_name # ""
    /\ calls = <<>>
    /\ Len(history) < MaxRuns
    /\ Ended(name, r, ps)

DetectByNameSimilarityAgain ==
    \E t \in SimilarityThresholds :
        DetectedAgain("name", NameRun(video_files, t), Params(t, 0, 0, 0))

DetectByDurationAgain ==
    \E tol \in DurationTolerances :
        DetectedAgain("duration", DurationRun(video_files, media, exists, tol),
                      Params(0, tol, 0, 0))

DetectByDurationAndFramesAgain ==
    \E tol \in DurationTolerances, t \in FrameThresholds, w \in ExtractSeconds :
        DetectedAgain("frames", FramesRun(video_files, media, exists, tol, t, w),
                      Params(0, tol, t, w))

NextRepeat ==
    \/ DetectByNameSimilarity
    \/ DetectByDuration
    \/ DetectByDurationAndFrames
    \/ DetectByNameSimilarityAgain
    \/ DetectByDurationAgain
    \/ DetectByDurationAndFramesAgain

SpecRepeat == InitRepeat /\ [][NextRepeat]_vars

----------------------------------------------------------------------------
(* The frame refinement on clips the decoder fails for                     *)

\* Two groups of durations, around 100 s and around 12 s. Of the 100 s
\* clips one shows picture 1, one a re-encode of it (picture 2), one
\* another picture (3), one cannot be opened, one makes the decoder raise
\* after two frames, one makes it raise before any frame, and one yields
\* no frame at the first read. The 12 s clip shows picture 1.
FrameFiles ==
    LET clip == Media("h1", TRUE, 10000, TRUE, 1, 100, 1)
    IN  {File(2, <<"a">>, clip),
         File(2, <<"a">>, Media("h2", TRUE, 10100, TRUE, 1, 101, 2)),
         File(1, <<"a">>, Media("h3", TRUE, 10200, TRUE, 1, 102, 3)),
         File(2, <<"a">>, Media("h4", TRUE, 10000, FALSE, 0, 0, 0)),
         File(2, <<"a">>, Broken(clip, 2, TRUE)),
         File(2, <<"a">>, Broken(clip, 0, TRUE)),
         File(2, <<"a">>, Broken(clip, 0, FALSE)),
         File(1, <<"a">>, Media("h5", TRUE, 1200, TRUE, 1, 12, 1))}

\* The default window and a longer one (--extract-seconds 8).
ExtractWindows == {5, 8}

InitFrames ==
    /\ \E inv \in UNION {[1..n -> FrameFiles] : n \in 1..MaxFrameFiles} : Scanned(inv)
    /\ args = NoArgs
    /\ all_duplicates = <<>>
    /\ target = NoTarget
    /\ pc = "api"

RefineByDurationAndFrames ==
    DetectByDurationAndFramesWith(FaultyTolerances, FrameThresholds, ExtractWindows)

NextFrames ==
    \/ ProbeByDuration
    \/ RefineByDurationAndFrames

SpecFrames == InitFrames /\ [][NextFrames]_vars

----------------------------------------------------------------------------
(* calculate_frame_similarity called on its own                            *)

\* Two frame sequences of up to MaxFrameLen thumbnails out of 0..3, of
\* which 0 is one matchTemplate raises for.
InitSimilarity ==
    /\ \E frames1, frames2 \in UNION {[1..n -> 0..3] : n \in 0..MaxFrameLen} :
          sampled = [frames1 |-> frames1, frames2 |-> frames2, called |-> FALSE,
                        value |-> <<0, 1>>]
    /\ video_files = <<>>
    /\ media = <<>>
    /\ exists = {}
    /\ duplicates = <<>>
    /\ method_name = ""
    /\ params = Params(0, 0, 0, 0)
    /\ calls = <<>>
    /\ history = <<>>
    /\ report = <<>>
    /\ args = NoArgs
    /\ all_duplicates = <<>>
    /\ target = NoTarget
    /\ pc = "api"

CalculateFrameSimilarity ==
    /\ pc = "api"
    /\ ~sampled.called
    /\ sampled' = [sampled EXCEPT
                      !.called = TRUE,
                      !.value = calculate_frame_similarity(sampled.frames1,
                                                           sampled.frames2)]
    /\ UNCHANGED <<video_files, media, exists, duplicates, method_name, params, calls,
                    args, all_duplicates, target, history, report, pc>>

SpecSimilarity == InitSimilarity /\ [][CalculateFrameSimilarity]_vars

----------------------------------------------------------------------------
(* main                                                                    *)

\* The argparse defaults of the thresholds.
DefaultSimilarity == 80

DefaultDurationTolerance == 300

DefaultFrameSimilarity == 80

DefaultExtractSeconds == 5

\* The keys of all_duplicates are the method names main prints; the model
\* writes them "size", "hash", "name", "duration", "frames".
Methods == {"size", "hash", "name", "duration", "frames", "all"}

\* The files of the command-line runs: clips of 100.00 s, 100.04 s and
\* 102.50 s and a file the tools cannot handle.
MainFiles ==
    {File(c[1], <<"a">>, Media(c[2], TRUE, c[3], TRUE, 1, c[4], c[5])) :
        c \in {<<2, "h1", 10000, 100, 1>>,
               <<2, "h2", 10004, 100, 3>>,
               <<1, "h4", 10250, 102, 2>>}}
    \cup {File(2, <<"a">>, NoVideo("h6", TRUE))}

\* After parse_args and scan_video_files found at least one video.
InitMain ==
    /\ \E inv \in UNION {[1..n -> MainFiles] : n \in 1..MaxMainFiles} : Scanned(inv)
    /\ \E m \in Methods, del \in BOOLEAN, dry \in BOOLEAN :
          args = [method |-> m, delete |-> del, dry_run |-> dry]
    /\ all_duplicates = <<>>
    /\ target = NoTarget
    /\ pc = "size"

\* One "if args.method in [name, "all"]" block: the method runs, its dict
\* is stored under its name and reported, or the block is skipped. A call
\* that does not return ends the run there.
MainStep(name, next, r, ps) ==
    /\ pc = name
    /\ IF args.method \notin {name, "all"}
       THEN /\ pc' = next
            /\ UNCHANGED <<duplicates, method_name, params, video_files, all_duplicates,
                            history, report>>
       ELSE IF r.ends = "returned"
       THEN /\ pc' = next
            /\ duplicates' = r.duplicates
            /\ method_name' = name
            /\ params' = ps
            /\ video_files' = r.video_files
            /\ history' = Append(history, [method_name |-> name, params |-> ps,
                                            duplicates |-> r.duplicates,
                                            candidates |-> r.candidates,
                                            extracted |-> r.extracted,
                                            compared |-> r.compared])
            /\ all_duplicates' = (name :> r.duplicates) @@ all_duplicates
            /\ report' = Append(report,
                                 print_duplicates_report(r.video_files, r.duplicates, name))
       ELSE /\ pc' = r.ends
            /\ video_files' = r.video_files
            /\ UNCHANGED <<duplicates, method_name, params, all_duplicates, history, report>>
    /\ UNCHANGED <<media, sampled, exists, calls, args, target>>

MainSize ==
    MainStep("size", "hash", SizeRun(video_files), Params(0, 0, 0, 0))

MainHash ==
    MainStep("hash", "name", HashRun(video_files, media, exists), Params(0, 0, 0, 0))

MainName ==
    MainStep("name", "duration", NameRun(video_files, DefaultSimilarity),
             Params(DefaultSimilarity, 0, 0, 0))

MainDuration ==
    MainStep("duration", "frames",
             DurationRun(video_files, media, exists, DefaultDurationTolerance),
             Params(0, DefaultDurationTolerance, 0, 0))

MainFrames ==
    MainStep("frames", "delete",
             FramesRun(video_files, media, exists, DefaultDurationTolerance,
                       DefaultFrameSimilarity, DefaultExtractSeconds),
             Params(0, DefaultDurationTolerance, DefaultFrameSimilarity,
                    DefaultExtractSeconds))

\* name in all_duplicates and all_duplicates[name]
HasResults(all, name) == name \in DOMAIN all /\ all[name] # <<>>

\* The other order: the frames result before the hash result.
SelectTargetFramesFirst(all) ==
    IF HasResults(all, "frames")
    THEN [method_name |-> "frames", duplicates |-> all["frames"]]
    ELSE IF HasResults(all, "hash")
    THEN [method_name |-> "hash", duplicates |-> all["hash"]]
    ELSE IF HasResults(all, "duration")
    THEN [method_name |-> "duration", duplicates |-> all["duration"]]
    ELSE NoTarget

\* A chain that falls back to the name and the size result.
SelectTargetAnyResult(all) ==
    IF HasResults(all, "hash")
    THEN [method_name |-> "hash", duplicates |-> all["hash"]]
    ELSE IF HasResults(all, "frames")
    THEN [method_name |-> "frames", duplicates |-> all["frames"]]
    ELSE IF HasResults(all, "duration")
    THEN [method_name |-> "duration", duplicates |-> all["duration"]]
    ELSE IF HasResults(all, "name")
    THEN [method_name |-> "name", duplicates |-> all["name"]]
    ELSE IF HasResults(all, "size")
    THEN [method_name |-> "size", duplicates |-> all["size"]]
    ELSE NoTarget

\* The if/elif chain choosing target_duplicates.
SelectTarget(all) ==
    IF HasResults(all, "hash")
    THEN [method_name |-> "hash", duplicates |-> all["hash"]]
    ELSE IF HasResults(all, "frames")
    THEN [method_name |-> "frames", duplicates |-> all["frames"]]
    ELSE IF HasResults(all, "duration")
    THEN [method_name |-> "duration", duplicates |-> all["duration"]]
    ELSE NoTarget

\* The "if args.delete" block.
MainDelete ==
    /\ pc = "delete"
    /\ pc' = "done"
    /\ IF args.delete
       THEN /\ target' = SelectTarget(all_duplicates)
            /\ IF target'.duplicates # <<>>
               THEN \E denied \in DeniedChoices :
                       /\ args.dry_run => denied = {}
                       /\ Resolve(target'.duplicates, args.dry_run, denied)
               ELSE UNCHANGED <<exists, calls>>
       ELSE UNCHANGED <<target, exists, calls>>
    /\ UNCHANGED <<video_files, media, sampled, duplicates, method_name, params, args, all_duplicates,
                    history, report>>

NextMain ==
    \/ MainSize
    \/ MainHash
    \/ MainName
    \/ MainDuration
    \/ MainFrames
    \/ MainDelete

SpecMain == InitMain /\ [][NextMain]_vars

----------------------------------------------------------------------------
(* Properties                                                              *)

Paths == 1..Len(video_files)

SizeOf(p) == video_files[p].size

\* The position of path p in a list that holds it.
PosIn(files, p) == CHOOSE k \in 1..Len(files) : files[k] = p

\* How often p occurs in a sequence.
Occurrences(s, p) == Cardinality({k \in 1..Len(s) : s[k] = p})

\* Some group of dict d holds both files.
Together(d, p, q) == \E i \in 1..Len(d) : {p, q} \subseteq Range(d[i].files)

\* Some group of dict d holds the file.
Grouped(d, p) == \E i \in 1..Len(d) : p \in Range(d[i].files)

\* The plan entries of a call for the group with this key.
EntriesFor(c, key) == {i \in 1..Len(c.plan) : c.plan[i].key = key}

\* Sum over the groups of (members - 1).
SumMembersMinusOne(d) == SumSeq([i \in 1..Len(d) |-> Len(d[i].files) - 1])

\* C1: in every delete_duplicates call, dry-run or real, every group of two
\* or more files is split into one kept file and the others, all marked for
\* removal; no marked file is strictly larger than every other member, the
\* kept file has the maximum size, and of the members that tie for the
\* maximum the kept one comes first in the group's own order.
C1_KeepsFirstLargest ==
    \A n \in 1..Len(calls) : \A g \in 1..Len(duplicates) :
        LET c     == calls[n]
            files == duplicates[g].files
        IN  Len(files) >= 2 =>
            /\ Cardinality(EntriesFor(c, duplicates[g].key)) = 1
            /\ \A i \in EntriesFor(c, duplicates[g].key) :
                 LET keep   == c.plan[i].keep
                     remove == c.plan[i].remove
                 IN  /\ keep \in Range(files)
                     /\ Range(remove) = Range(files) \ {keep}
                     /\ Len(remove) = Len(files) - 1
                     /\ \A p \in Range(remove) :
                          ~(\A q \in Range(files) \ {p} : SizeOf(p) > SizeOf(q))
                     /\ \A q \in Range(files) : SizeOf(q) <= SizeOf(keep)
                     /\ \A q \in Range(files) \ {keep} :
                          SizeOf(q) = SizeOf(keep) => PosIn(files, keep) < PosIn(files, q)

\* A call on a group whose first file is smaller than two later files that
\* tie for the maximum.
C1_Witness ==
    \E n \in 1..Len(calls) : \E g \in 1..Len(duplicates) :
        LET files == duplicates[g].files
        IN  /\ calls[n].plan # <<>>
            /\ \E a, b \in 2..Len(files) :
                 /\ a < b
                 /\ SizeOf(files[a]) = SizeOf(files[b])
                 /\ SizeOf(files[1]) < SizeOf(files[a])
                 /\ \A q \in Range(files) : SizeOf(q) <= SizeOf(files[a])

\* C2: in a delete_duplicates call on the groups of one detection method,
\* the kept file of a group is marked for removal in no other group, and
\* after a real-mode call every kept file that was on disk is still there.
C2_KeptFilesSurvive ==
    \A n \in 1..Len(calls) :
        LET c == calls[n]
        IN  /\ \A i, j \in 1..Len(c.plan) :
                 i # j => c.plan[i].keep \notin Range(c.plan[j].remove)
            /\ ~c.dry_run =>
                 \A i \in 1..Len(c.plan) :
                    c.plan[i].keep \in c.before => c.plan[i].keep \in c.after

\* A real-mode call on two groups that removed a file of each.
C2_Witness ==
    \E n \in 1..Len(calls) :
        LET c == calls[n]
        IN  /\ ~c.dry_run
            /\ Len(c.plan) >= 2
            /\ \A i \in 1..Len(c.plan) : Range(c.plan[i].remove) \ c.after # {}
            /\ \A i \in 1..Len(c.plan) : c.plan[i].keep \in c.after

\* C3: a dry-run call removes nothing and attempts no removal, and any two
\* dry-run calls on the same groups give the same split and the same counts.
C3_DryRunIdempotent ==
    /\ \A n \in 1..Len(calls) :
         calls[n].dry_run =>
            /\ calls[n].after = calls[n].before
            /\ calls[n].attempts = <<>>
    /\ \A n, k \in 1..Len(calls) :
         calls[n].dry_run /\ calls[k].dry_run =>
            /\ calls[n].plan = calls[k].plan
            /\ calls[n].deleted_count = calls[k].deleted_count
            /\ calls[n].failed_count = calls[k].failed_count

\* Two dry-run calls in a row on a result with something to remove.
C3_Witness ==
    /\ Len(calls) = 2
    /\ calls[1].dry_run
    /\ calls[2].dry_run
    /\ calls[2].plan # <<>>
    /\ calls[2].deleted_count > 0

\* C4: a real-mode call attempts the removal of every marked file of every
\* group exactly once, whatever happened to the earlier attempts; the
\* attempts that left the file in place are the failures, and the two
\* counts add up to the sum over the groups of (members - 1).
C4_EveryMarkedFileAttempted ==
    \A n \in 1..Len(calls) :
        LET c == calls[n]
        IN  ~c.dry_run =>
            /\ \A i \in 1..Len(c.plan) : \A p \in Range(c.plan[i].remove) :
                 Occurrences(c.attempts, p) = 1
            /\ Len(c.attempts) = SumSeq([i \in 1..Len(c.plan) |-> Len(c.plan[i].remove)])
            /\ c.deleted_count = Cardinality(c.before \ c.after)
            /\ c.failed_count = Cardinality({k \in 1..Len(c.attempts) : c.attempts[k] \in c.after})
            /\ c.deleted_count + c.failed_count = SumMembersMinusOne(duplicates)

\* A real-mode call in which a removal failed and a later removal, of a
\* file of another group, succeeded.
C4_Witness ==
    \E n \in 1..Len(calls) :
        LET c == calls[n]
        IN  /\ ~c.dry_run
            /\ \E a, b \in 1..Len(c.attempts) :
                 /\ a < b
                 /\ c.attempts[a] \in c.after
                 /\ c.attempts[b] \notin c.after
                 /\ ~Together(duplicates, c.attempts[a], c.attempts[b])

\* The match predicate of the method that produced the current result.
NamesMatch(p, q, threshold) ==
    RatioAtLeast(Lower(video_files[p].name), Lower(video_files[q].name), threshold)

\* The disk as the detection method saw it: no file goes before the first
\* delete_duplicates call.
DiskAtDetection == IF calls = <<>> THEN exists ELSE calls[1].before

Probed(p) == get_video_duration(media, DiskAtDetection, p) > 0

Hashed(p) == p \in DiskAtDetection /\ media[p].readable

FramesMatch(p, q) ==
    SimilarityAtLeast(
        calculate_frame_similarity(
            extract_video_frames(media, DiskAtDetection, p, params.extract_seconds),
            extract_video_frames(media, DiskAtDetection, q, params.extract_seconds)),
        params.frame_similarity)

Matches(p, q) ==
    CASE method_name = "size" -> SizeOf(p) = SizeOf(q)
      [] method_name = "hash" ->
            Hashed(p) /\ Hashed(q) /\ media[p].digest = media[q].digest
      [] method_name = "name" ->
            NamesMatch(p, q, params.similarity) \/ NamesMatch(q, p, params.similarity)
      [] method_name = "duration" ->
            /\ Probed(p)
            /\ Probed(q)
            /\ Abs(media[p].probe - media[q].probe) <= params.duration_tolerance
      [] method_name = "frames" -> FramesMatch(p, q)
      [] OTHER -> FALSE

\* C5: every group a detection method returns has at least two members,
\* and a file that matches no other file of the inventory is in no group.
C5_GroupsHaveMatchingMembers ==
    method_name # "" =>
        /\ \A g \in 1..Len(duplicates) : Len(duplicates[g].files) >= 2
        /\ \A p \in Paths :
             (\A q \in Paths \ {p} : ~Matches(p, q)) => ~Grouped(duplicates, p)

\* The keys and file lists a call was given, read off its plan.
PassedTo(c) ==
    [i \in 1..Len(c.plan) |->
        [key |-> c.plan[i].key, files |-> Range(c.plan[i].remove) \cup {c.plan[i].keep}]]

KeysAndFiles(d) == [i \in 1..Len(d) |-> [key |-> d[i].key, files |-> Range(d[i].files)]]

\* The result main has to prefer: hash, then frames, then duration.
Preferred ==
    IF HasResults(all_duplicates, "hash") THEN "hash"
    ELSE IF HasResults(all_duplicates, "frames") THEN "frames"
    ELSE IF HasResults(all_duplicates, "duration") THEN "duration"
    ELSE ""

\* C6: a run calls the resolver at most once; a finished run with --delete
\* called it exactly when the hash, frames or duration method produced
\* groups, and then on the groups of the first of these three that has
\* any, with no group of another method added.
C6_OneMethodByPriority ==
    /\ Len(calls) <= 1
    /\ (pc = "done" /\ args.delete) =>
          IF Preferred = ""
          THEN calls = <<>> /\ target = NoTarget
          ELSE /\ Len(calls) = 1
               /\ target.method_name = Preferred
               /\ target.duplicates = all_duplicates[Preferred]
               /\ PassedTo(calls[1]) = KeysAndFiles(all_duplicates[Preferred])

\* A finished --method all --delete run in which the hash and the frames
\* method produced different groups and the resolver got the hash groups.
C6_Witness ==
    /\ pc = "done"
    /\ args.delete
    /\ args.method = "all"
    /\ HasResults(all_duplicates, "hash")
    /\ HasResults(all_duplicates, "frames")
    /\ HasResults(all_duplicates, "duration")
    /\ KeysAndFiles(all_duplicates["hash"]) # KeysAndFiles(all_duplicates["frames"])
    /\ Len(calls) = 1
    /\ PassedTo(calls[1]) = KeysAndFiles(all_duplicates["hash"])

\* C7: two files of equal size and different digests are in one group of
\* the size method and in no common group of the hash method.
C7_SizeGroupsHashSeparates ==
    \A p, q \in Paths :
        (p # q /\ SizeOf(p) = SizeOf(q) /\ media[p].digest # media[q].digest) =>
            /\ method_name = "size" => Together(duplicates, p, q)
            /\ method_name = "hash" => ~Together(duplicates, p, q)

\* The hash method formed a group and kept apart two readable files of
\* equal size and different digests, one of them in the group.
C7_Witness ==
    /\ method_name = "hash"
    /\ \E p, q \in Paths :
         /\ SizeOf(p) = SizeOf(q)
         /\ media[p].digest # media[q].digest
         /\ Hashed(p)
         /\ Hashed(q)
         /\ Grouped(duplicates, p)
         /\ ~Together(duplicates, p, q)

\* C8: the hash method puts two files whose content was read and has one
\* digest in the same group; each group is keyed by a digest and holds
\* exactly the files read with that digest, and no two groups share a key.
C8_HashGroupsByDigest ==
    method_name = "hash" =>
        /\ \A p, q \in Paths :
             (p # q /\ Hashed(p) /\ Hashed(q) /\ media[p].digest = media[q].digest) =>
                Together(duplicates, p, q)
        /\ \A g \in 1..Len(duplicates) :
             \E h \in {media[p].digest : p \in Paths} :
                /\ duplicates[g].key = <<"hash", h>>
                /\ Range(duplicates[g].files) = {p \in Paths : Hashed(p) /\ media[p].digest = h}
                /\ Len(duplicates[g].files) = Cardinality(Range(duplicates[g].files))
        /\ \A g, k \in 1..Len(duplicates) :
             duplicates[g].key = duplicates[k].key => g = k

\* The hash method grouped two files of different names that are not
\* neighbours in the inventory.
C8_Witness ==
    /\ method_name = "hash"
    /\ \E p, q \in Paths :
         /\ q > p + 1
         /\ video_files[p].name # video_files[q].name
         /\ Together(duplicates, p, q)
         /\ ~Together(duplicates, p, p + 1)

\* The inventory without the files whose content cannot be read.
ReadableFiles == SelectSeq(video_files, LAMBDA f : Hashed(f.path))

\* C9: a file the hash method cannot read is in none of its groups, and
\* the groups are those the method returns for the inventory without the
\* unreadable files.
C9_UnreadableSkipped ==
    method_name = "hash" =>
        /\ \A p \in Paths : ~Hashed(p) => ~Grouped(duplicates, p)
        /\ duplicates = detect_by_hash(ReadableFiles, media, DiskAtDetection)

\* The hash method met an unreadable file and grouped two files that come
\* after it.
C9_Witness ==
    /\ method_name = "hash"
    /\ \E p, q, r \in Paths :
         /\ p < q
         /\ q < r
         /\ ~Hashed(p)
         /\ Together(duplicates, q, r)

\* In the result of the name method: q joined a group as a later member.
Joined(q) ==
    \E g \in 1..Len(duplicates) : \E k \in 2..Len(duplicates[g].files) :
        duplicates[g].files[k] = q

\* q is in the group that r opened.
InGroupOf(r, q) ==
    \E g \in 1..Len(duplicates) :
        duplicates[g].files[1] = r /\ q \in Range(duplicates[g].files)

\* q was taken by a representative that comes before r.
TakenBefore(q, r) ==
    \E g \in 1..Len(duplicates) :
        duplicates[g].files[1] < r /\ q \in Range(duplicates[g].files)

\* C10: the name method clusters greedily around representatives. A file
\* no earlier file took is a representative; a later file that no earlier
\* representative took is in its group exactly when the lower-cased names
\* reach the threshold; a group lists its representative first, then its
\* members in inventory order, under the key of the representative's
\* position.
C10_GreedyNameClustering ==
    method_name = "name" =>
        /\ \A r, q \in Paths :
             (~Joined(r) /\ r < q /\ ~TakenBefore(q, r)) =>
                (InGroupOf(r, q) <=> NamesMatch(r, q, params.similarity))
        /\ \A g \in 1..Len(duplicates) :
             LET files == duplicates[g].files
             IN  /\ ~Joined(files[1])
                 /\ duplicates[g].key = <<"group", files[1] - 1>>
                 /\ \A k \in 1..(Len(files) - 1) : files[k] < files[k + 1]

\* B is in A's group, C is similar to B and not to A, and C is not in A's
\* group.
C10_Witness ==
    /\ method_name = "name"
    /\ \E a, b, c \in Paths :
         /\ a < b
         /\ b < c
         /\ InGroupOf(a, a)
         /\ InGroupOf(a, b)
         /\ NamesMatch(b, c, params.similarity)
         /\ ~NamesMatch(a, c, params.similarity)
         /\ ~InGroupOf(a, c)

\* get_video_duration returned the sentinel for the file.
ProbeFailed(p) ==
    /\ ~ProbeRaises(media, DiskAtDetection, p)
    /\ get_video_duration(media, DiskAtDetection, p) = Unknown

\* The inventory without the files whose probe failed.
ProbedOnly == SelectSeq(video_files, LAMBDA f : ~ProbeFailed(f.path))

\* C11: a file whose duration probe fails or times out is in no group of
\* the duration method, and the groups are those the method returns for
\* the inventory without such files, so it is no representative either;
\* the size, hash and name methods treat it as any other file: it is in a
\* size group when another file has its size, in a hash group when another
\* readable file has its digest, in a name group when every other file's
\* name is similar to its own.
C11_ProbeFailureExcludes ==
    /\ method_name = "duration" =>
          /\ \A p \in Paths : ProbeFailed(p) => ~Grouped(duplicates, p)
          /\ duplicates = detect_by_duration(ProbedOnly, media, DiskAtDetection,
                                             params.duration_tolerance)
    /\ \A p \in Paths : ProbeFailed(p) =>
          /\ method_name = "size" =>
                (Grouped(duplicates, p) <=> \E q \in Paths \ {p} : SizeOf(q) = SizeOf(p))
          /\ method_name = "hash" =>
                (Grouped(duplicates, p) <=>
                    /\ Hashed(p)
                    /\ \E q \in Paths \ {p} : Hashed(q) /\ media[q].digest = media[p].digest)
          /\ method_name = "name" =>
                ((/\ Paths # {p}
                  /\ \A q \in Paths \ {p} : NamesMatch(p, q, params.similarity))
                 => Grouped(duplicates, p))

\* The duration method grouped two files and left out a file between them
\* whose probe timed out.
C11_Witness ==
    /\ method_name = "duration"
    /\ \E p, q, r \in Paths :
         /\ p < q
         /\ q < r
         /\ media[q].ffprobe = "timeout"
         /\ ProbeFailed(q)
         /\ SizeOf(q) = SizeOf(p)
         /\ Together(duplicates, p, r)

\* C12: for two files with known durations the duration method returns one
\* group holding both when the durations differ by at most the tolerance,
\* and no group otherwise.
C12_TwoFilesGroupedIffClose ==
    (/\ method_name = "duration"
     /\ Len(video_files) = 2
     /\ Probed(1)
     /\ Probed(2)) =>
        IF Abs(media[1].probe - media[2].probe) <= params.duration_tolerance
        THEN Len(duplicates) = 1 /\ duplicates[1].files = <<1, 2>>
        ELSE duplicates = <<>>

BelowFloor(p) ==
    media[p].fps <= 0 \/ media[p].total_frames < MinFrameDuration * media[p].fps

\* The duration candidates of the current frames result.
Candidates ==
    detect_by_duration(video_files, media, DiskAtDetection, params.duration_tolerance)

\* The candidates with the files under the floor taken out of every group.
CandidatesOverFloor ==
    [g \in 1..Len(Candidates) |->
        [key |-> Candidates[g].key,
         files |-> SelectSeq(Candidates[g].files, LAMBDA p : ~BelowFloor(p))]]

\* C14: a file whose decoded duration is under the 10 s floor yields no
\* frames and is in no group of the duration+frames method, and the groups
\* are those the comparison forms with such files removed from the
\* candidates: it is compared with nothing, at every threshold.
C14_FloorExcludesShortFiles ==
    method_name = "frames" =>
        /\ \A p \in Paths : BelowFloor(p) =>
              /\ extract_video_frames(media, DiskAtDetection, p, params.extract_seconds) = <<>>
              /\ ~Grouped(duplicates, p)
        /\ duplicates = FrameGroups(media, DiskAtDetection, CandidatesOverFloor, 1,
                                    params.frame_similarity, params.extract_seconds, <<>>)

\* The frames method ran with a threshold every similarity reaches on two
\* files under the floor that share a duration candidate with a longer one
\* or with each other.
C14_Witness ==
    /\ method_name = "frames"
    /\ params.frame_similarity = 0
    /\ \E p, q \in Paths :
         /\ p # q
         /\ BelowFloor(p)
         /\ BelowFloor(q)
         /\ media[p].opens
         /\ media[q].opens
         /\ Together(Candidates, p, q)

\* The size of the largest member of a group.
LargestSize(files) ==
    CHOOSE z \in {SizeOf(p) : p \in Range(files)} : \A p \in Range(files) : SizeOf(p) <= z

\* C15: every report's duplicate-file count is the sum over the groups of
\* (members - 1), and its wasted-space total is the sum over the groups of
\* (size of the group's largest member, the one listed as kept) times
\* (members - 1).
C15_ReportTotals ==
    \A n \in 1..Len(report) :
        LET d == all_duplicates[report[n].method_name]
        IN  /\ report[n].total_duplicates = SumMembersMinusOne(d)
            /\ report[n].total_wasted_space =
                  SumSeq([g \in 1..Len(d) |->
                              LargestSize(d[g].files) * (Len(d[g].files) - 1)])

\* C16: no detection call stays inside the hashing, the probing or the
\* decoding of one file: each of these steps ends, by a timeout if need be.
C16_EveryStepEndsInTime == pc # "waiting"

\* C17: no failure of the probing tool makes get_video_duration raise, and
\* after the duration pass every file the tool failed for has no duration.
C17_ProbeFailuresReturnSentinel ==
    /\ pc # "raised"
    /\ method_name \in {"duration", "frames"} =>
          \A p \in Paths : media[p].ffprobe # "ok" => video_files[p].duration = Unknown

\* The files whose content was read and has the digest of p's content.
SameDigest(p) == {q \in Paths : Hashed(q) /\ media[q].digest = media[p].digest}

\* C18: in a delete_duplicates call on the groups of the hash method, a file
\* leaves the disk only if it is a member of a hash group other than the
\* first; a file whose digest no other file shares is in no group and stays
\* on disk; and of the files sharing a digest, which have one size, the
\* first of the inventory is kept and every other one is marked.
C18_HashThenResolve ==
    method_name = "hash" =>
        \A n \in 1..Len(calls) :
            /\ \A p \in calls[n].before \ calls[n].after :
                  \E g \in 1..Len(duplicates) : \E k \in 2..Len(duplicates[g].files) :
                      duplicates[g].files[k] = p
            /\ \A p \in Paths :
                  (Hashed(p) /\ SameDigest(p) = {p}) =>
                      /\ ~Grouped(duplicates, p)
                      /\ p \in calls[n].before => p \in calls[n].after
            /\ \A p \in Paths :
                  (Hashed(p) /\ SameDigest(p) # {p}) =>
                      /\ \A q \in SameDigest(p) : SizeOf(q) = SizeOf(p)
                      /\ \E i \in 1..Len(calls[n].plan) :
                            /\ calls[n].plan[i].keep = FirstIn(SameDigest(p))
                            /\ Range(calls[n].plan[i].remove) =
                                  SameDigest(p) \ {FirstIn(SameDigest(p))}

\* The hash method grouped two copies and left a third file alone, and a
\* real call removed the second copy.
C18_Witness ==
    /\ method_name = "hash"
    /\ Len(calls) = 1
    /\ ~calls[1].dry_run
    /\ \E p, q, r \in Paths :
         /\ p < q
         /\ SameDigest(p) = {p, q}
         /\ SameDigest(r) = {r}
         /\ q \notin exists
         /\ p \in exists
         /\ r \in exists

\* The test a representative p applies to a file q in the clustering
\* methods.
RepMatches(p, q) ==
    CASE method_name = "name" -> NamesMatch(p, q, params.similarity)
      [] method_name = "duration" ->
            Abs(media[p].probe - media[q].probe) <= params.duration_tolerance
      [] method_name = "frames" -> FramesMatch(p, q)
      [] OTHER -> FALSE

\* The clusters the greedy pass forms over a list of files, each with its
\* representative first; a representative nothing joined is alone.
RECURSIVE Greedy(_, _, _)
Greedy(items, processed, out) ==
    IF items = <<>> THEN out
    ELSE IF Head(items) \in processed THEN Greedy(Tail(items), processed, out)
    ELSE LET joiners == SelectSeq(Tail(items),
                                  LAMBDA q : q \notin processed /\ RepMatches(Head(items), q))
         IN  Greedy(Tail(items), processed \cup {Head(items)} \cup Range(joiners),
                    Append(out, <<Head(items)>> \o joiners))

\* The lists the current method clusters: the inventory, the probed files,
\* or the members of each duration candidate that yielded frames.
ScanLists ==
    CASE method_name = "name" -> <<Indices(Len(video_files))>>
      [] method_name = "duration" -> <<SelectSeq(Indices(Len(video_files)), Probed)>>
      [] method_name = "frames" ->
            [g \in 1..Len(Candidates) |->
                FileFrames(media, DiskAtDetection, Candidates[g].files, params.extract_seconds)]
      [] OTHER -> <<>>

Clusters == Flatten([l \in 1..Len(ScanLists) |-> Greedy(ScanLists[l], {}, <<>>)])

\* C19: in every group of the duration method each member's duration is
\* within the tolerance of the duration of the group's first member, and
\* two representatives that nothing joined are never in one group.
C19_MembersNearRepresentative ==
    method_name = "duration" =>
        /\ \A g \in 1..Len(duplicates) : \A p \in Range(duplicates[g].files) :
              Abs(media[p].probe - media[duplicates[g].files[1]].probe)
                  <= params.duration_tolerance
        /\ \A a, b \in 1..Len(Clusters) :
              (a # b /\ Len(Clusters[a]) = 1 /\ Len(Clusters[b]) = 1)
              => ~Together(duplicates, Clusters[a][1], Clusters[b][1])

\* The key the method gives the group of representative p.
RepKey(p) ==
    CASE method_name = "name" -> <<"group", p - 1>>
      [] method_name = "duration" -> DurationKey(media[p].probe)
      [] OTHER -> <<>>

\* C20: the groups of a result have different keys; a size group's key is
\* its members' size and a hash group's key their digest; in the name,
\* duration and frames methods the groups returned are the clusters of the
\* representatives that attracted a file, one group each, and in the name
\* and duration methods two representatives never get the same key.
C20_KeysIdentifyGroups ==
    /\ \A g, h \in 1..Len(duplicates) : duplicates[g].key = duplicates[h].key => g = h
    /\ method_name = "size" =>
          \A g \in 1..Len(duplicates) : \A p \in Range(duplicates[g].files) :
              duplicates[g].key = <<"size", SizeOf(p)>>
    /\ method_name = "hash" =>
          \A g \in 1..Len(duplicates) : \A p \in Range(duplicates[g].files) :
              duplicates[g].key = <<"hash", media[p].digest>>
    /\ method_name \in {"name", "duration", "frames"} =>
          /\ Len(duplicates) = Cardinality({a \in 1..Len(Clusters) : Len(Clusters[a]) > 1})
          /\ \A a \in 1..Len(Clusters) :
                Len(Clusters[a]) > 1 =>
                    \E g \in 1..Len(duplicates) : duplicates[g].files = Clusters[a]
    /\ method_name \in {"name", "duration"} =>
          \A a, b \in 1..Len(Clusters) :
              a # b => RepKey(Clusters[a][1]) # RepKey(Clusters[b][1])

----------------------------------------------------------------------------
(* The frame refinement                                                    *)

\* The record of the detection call that gave the current result.
LastRun == history[Len(history)]

\* The groups the duration pass of the run returned.
DurationPass == LastRun.candidates

\* C21: the visual refinement works only inside the duration candidates:
\* frames are extracted only for members of a duration group, two files of
\* different duration groups are never compared, every group returned is a
\* subset of exactly one group of the duration pass, and when that pass
\* yields no group the result is empty and no frame is extracted.
C21_RefinementInsideCandidates ==
    method_name = "frames" =>
        /\ \A k \in 1..Len(LastRun.extracted) : Grouped(DurationPass, LastRun.extracted[k])
        /\ \A k \in 1..Len(LastRun.compared) :
              Together(DurationPass, LastRun.compared[k][1], LastRun.compared[k][2])
        /\ \A i \in 1..Len(duplicates) :
              Cardinality({g \in 1..Len(DurationPass) :
                              Range(duplicates[i].files)
                                 \subseteq Range(DurationPass[g].files)}) = 1
        /\ DurationPass = <<>> => duplicates = <<>> /\ LastRun.extracted = <<>>

\* Two duration candidates were refined to a frames group each and files
\* of both were compared.
C21_Witness ==
    /\ method_name = "frames"
    /\ Len(DurationPass) = 2
    /\ Len(duplicates) = 2
    /\ Len(LastRun.compared) >= 2

\* No duration group: the refinement returned nothing and opened no file.
C21_WitnessNoCandidates ==
    /\ method_name = "frames"
    /\ Len(video_files) >= 2
    /\ DurationPass = <<>>
    /\ duplicates = <<>>

\* extract_video_frames was called for p and failed: the file could not be
\* opened, the decoder raised before the frames wanted (int(fps *
\* extract_seconds), as far as the container holds frames from the middle
\* on) were read, or no frame was read.
ExtractionFailed(p) ==
    /\ \E k \in 1..Len(LastRun.extracted) : LastRun.extracted[k] = p
    /\ \/ ~media[p].opens
       \/ /\ ~BelowFloor(p)
          /\ media[p].decode_raises
          /\ media[p].delivered
                < Min2(media[p].fps * params.extract_seconds,
                       media[p].total_frames - media[p].total_frames \div 2)
       \/ extract_video_frames(media, DiskAtDetection, p, params.extract_seconds) = <<>>

\* p is one of the two files of some similarity computed in the run.
Compared(p) ==
    \E k \in 1..Len(LastRun.compared) : p \in {LastRun.compared[k][1], LastRun.compared[k][2]}

\* C22: a file whose frame extraction fails (cannot be opened, decoder
\* error, or no frame read) appears in no frames group and is compared with
\* no other file, while it is still a member of its duration group.
C22_FailedExtractionExcludes ==
    method_name = "frames" =>
        \A p \in Paths : ExtractionFailed(p) =>
            /\ ~Grouped(duplicates, p)
            /\ ~Compared(p)
            /\ Grouped(DurationPass, p)

\* The same for the failures that leave no frame at all: these do exclude.
C22_NoFramesExcludes ==
    method_name = "frames" =>
        \A p \in Paths :
            (/\ Grouped(DurationPass, p)
             /\ extract_video_frames(media, DiskAtDetection, p, params.extract_seconds) = <<>>)
            => ~Grouped(duplicates, p) /\ ~Compared(p)

\* The members of candidate g that yielded frames.
WithFrames(g) ==
    {p \in Range(DurationPass[g].files) :
        extract_video_frames(media, DiskAtDetection, p, params.extract_seconds) # <<>>}

\* C24: within one duration candidate with n files whose frames were
\* extracted, at most n(n-1)/2 similarities are computed: a representative
\* is compared only with files that come after it and are not yet
\* clustered, and no unordered pair is compared twice.
C24_ComparisonsBounded ==
    LET compared == LastRun.compared
        \* the candidate that holds p, and p's place in it
        CandidateOf(p) == CHOOSE g \in 1..Len(DurationPass) : p \in Range(DurationPass[g].files)
        PlaceOf(p) == PosIn(DurationPass[CandidateOf(p)].files, p)
        \* the comparisons between members of candidate g
        ComparisonsIn(g) ==
            {k \in 1..Len(compared) : compared[k][1] \in Range(DurationPass[g].files)}
        \* q was put into a frames group by a representative listed before p
        ClusteredBefore(q, p) ==
            \E i \in 1..Len(duplicates) :
                /\ q \in Range(duplicates[i].files)
                /\ Head(duplicates[i].files) # p
                /\ Grouped(DurationPass, Head(duplicates[i].files))
                /\ CandidateOf(Head(duplicates[i].files)) = CandidateOf(p)
                /\ PlaceOf(Head(duplicates[i].files)) < PlaceOf(p)
    IN  method_name = "frames" =>
            /\ \A g \in 1..Len(DurationPass) :
                  2 * Cardinality(ComparisonsIn(g))
                     <= Cardinality(WithFrames(g)) * (Cardinality(WithFrames(g)) - 1)
            /\ \A k \in 1..Len(compared) :
                  /\ Together(DurationPass, compared[k][1], compared[k][2])
                  /\ PlaceOf(compared[k][1]) < PlaceOf(compared[k][2])
                  /\ ~ClusteredBefore(compared[k][2], compared[k][1])
            /\ \A k, l \in 1..Len(compared) :
                  k # l => {compared[k][1], compared[k][2]}
                             # {compared[l][1], compared[l][2]}

\* A candidate of four files with frames: the first took the second, so the
\* third was compared with the fourth only, four comparisons in all.
C24_Witness ==
    /\ method_name = "frames"
    /\ Len(DurationPass) = 1
    /\ Cardinality(WithFrames(1)) = 4
    /\ Len(duplicates) >= 1
    /\ Len(duplicates[1].files) = 2
    /\ Len(LastRun.compared) = 4

\* C25: every file accepted for frame sampling is long enough to hold the
\* whole sampling window, for every configured window: the frames requested,
\* int(fps * w), never exceed the frames available from the midpoint on.
C25_WindowFitsAcceptedFiles ==
    method_name = "frames" =>
        \A p \in Paths :
            (/\ Grouped(DurationPass, p)
             /\ extract_video_frames(media, DiskAtDetection, p, params.extract_seconds) # <<>>)
            => media[p].total_frames \div 2 + media[p].fps * params.extract_seconds
                  <= media[p].total_frames

\* The same at the default window of 5 s, which the 10 s floor covers.
C25_DefaultWindowFits ==
    (method_name = "frames" /\ params.extract_seconds = DefaultExtractSeconds) =>
        \A p \in Paths :
            ~BelowFloor(p) =>
                media[p].total_frames \div 2 + media[p].fps * params.extract_seconds
                    <= media[p].total_frames

----------------------------------------------------------------------------
(* The similarity of two frame sequences                                   *)

\* C23: calculate_frame_similarity compares only the frame pairs of equal
\* index up to the shorter length, counts a negative correlation or a
\* failed comparison as 0 and returns the mean of the scores, which lies
\* in [0, 1]; it returns 0 when either sequence is empty.
C23_SimilarityIsClampedMean ==
    sampled.called =>
        LET frames1 == sampled.frames1
            frames2 == sampled.frames2
            n       == Min2(Len(frames1), Len(frames2))
            sum     == sampled.value[1]
            count   == sampled.value[2]
            \* the score of one pair: 0 for a negative correlation and for
            \* a comparison that failed
            PairScore(x, y) ==
                IF x = 0 \/ y = 0 THEN 0
                ELSE IF Correlation(x, y) < 0 THEN 0
                ELSE Correlation(x, y)
        IN  /\ count > 0
            /\ 0 <= sum
            /\ sum <= 100 * count
            /\ n = 0 => sum = 0
            /\ n > 0 =>
                  /\ count = n
                  /\ sum = SumSeq([i \in 1..n |-> PairScore(frames1[i], frames2[i])])

\* Sequences of three and two frames were compared: one pair correlates
\* negatively, the other positively, and the third frame has no partner.
C23_Witness ==
    /\ sampled.called
    /\ Len(sampled.frames1) = 3
    /\ Len(sampled.frames2) = 2
    /\ \E i \in 1..2 : /\ ~MatchFails(sampled.frames1[i], sampled.frames2[i])
                       /\ Correlation(sampled.frames1[i], sampled.frames2[i]) < 0
    /\ sampled.value[1] > 0
    /\ sampled.value[1] < 100 * sampled.value[2]

----------------------------------------------------------------------------
(* The report and the resolver agree                                       *)

\* The members of the group a report entry was printed for.
ReportedFiles(r, g) ==
    LET d == all_duplicates[r.method_name]
    IN  d[CHOOSE i \in 1..Len(d) : d[i].key = g.key].files

\* C26: in the report of any group the members are listed by size
\* descending, equal sizes in the group's order; exactly the first listed
\* file is marked as kept and all others as duplicates; and the file marked
\* as kept is the one delete_duplicates keeps for that group.
C26_ReportKeepsWhatResolverKeeps ==
    \A n \in 1..Len(report) : \A k \in 1..Len(report[n].groups) :
        LET g     == report[n].groups[k]
            files == ReportedFiles(report[n], g)
            lines == g.lines
        IN  /\ Len(lines) = Len(files)
            /\ \A p \in Range(files) : \E i \in 1..Len(lines) : lines[i].path = p
            /\ \A i, j \in 1..Len(lines) :
                  i < j =>
                     /\ SizeOf(lines[i].path) >= SizeOf(lines[j].path)
                     /\ SizeOf(lines[i].path) = SizeOf(lines[j].path)
                           => PosIn(files, lines[i].path) < PosIn(files, lines[j].path)
            /\ \A i \in 1..Len(lines) : lines[i].status = "keep" <=> i = 1
            /\ \A i \in 1..Len(lines) : lines[i].status \in {"keep", "duplicate"}
            /\ lines[1].path = FileToKeep(video_files, files)
            /\ \A c \in 1..Len(calls) :
                  target.method_name = report[n].method_name =>
                     \A e \in EntriesFor(calls[c], g.key) :
                        calls[c].plan[e].keep = lines[1].path

\* A reported group of three whose first member is the smallest was then
\* resolved for real: the file marked as kept, not the group's first, is
\* the one left on disk.
C26_Witness ==
    /\ pc = "done"
    /\ calls # <<>>
    /\ ~calls[1].dry_run
    /\ calls[1].failed_count = 0
    /\ \E n \in 1..Len(report) :
         /\ report[n].method_name = target.method_name
         /\ \E k \in 1..Len(report[n].groups) :
              LET g == report[n].groups[k]
              IN  /\ Len(g.lines) = 3
                  /\ g.lines[1].path # Head(ReportedFiles(report[n], g))
                  /\ g.lines[1].path \in exists
                  /\ g.lines[2].path \notin exists
                  /\ g.lines[3].path \notin exists

----------------------------------------------------------------------------
(* Groups do not overlap                                                   *)

\* C27: within the result of one run of one detection method every
\* inventory file appears in at most one group and at most once in that
\* group: the groups of a result are pairwise disjoint, for each of the
\* five methods.
C27_GroupsAreDisjoint ==
    \A n \in 1..Len(history) :
        LET d == history[n].duplicates
        IN  \A i, j \in 1..Len(d) : \A k \in 1..Len(d[i].files), l \in 1..Len(d[j].files) :
                d[i].files[k] = d[j].files[l] => (i = j /\ k = l)

\* The name method returned a group, and a file in it also matches a file
\* that did not join the group's representative.
C27_Witness ==
    /\ method_name = "name"
    /\ Len(history) = 1
    /\ \E a, b, c \in Paths :
         /\ a < b
         /\ b < c
         /\ Together(duplicates, a, c)
         /\ ~Together(duplicates, a, b)
         /\ NamesMatch(b, c, params.similarity)

\* A result with two groups or more, for each method that can form them.
C27_WitnessTwoGroups ==
    /\ method_name \in {"duration", "frames"}
    /\ Len(duplicates) >= 2

----------------------------------------------------------------------------
(* What a command-line run may remove                                      *)

\* C28: a command-line run removes a file only when --delete is set and
\* --dry-run is not: without --delete the resolver is never called, with
\* --delete --dry-run it is called in dry-run mode only, and in both cases
\* every file that existed before the run exists after it.
C28_RemovesOnlyOnDeleteWithoutDryRun ==
    /\ ~args.delete => calls = <<>>
    /\ (args.delete /\ args.dry_run) => \A c \in 1..Len(calls) : calls[c].dry_run
    /\ (~args.delete \/ args.dry_run) => exists = Paths

\* A finished --delete --dry-run run whose resolver call marked files.
C28_Witness ==
    /\ pc = "done"
    /\ args.delete
    /\ args.dry_run
    /\ Len(calls) = 1
    /\ calls[1].deleted_count > 0
    /\ exists = Paths

\* A finished run without --delete that found duplicates by hash.
C28_WitnessNoDelete ==
    /\ pc = "done"
    /\ ~args.delete
    /\ HasResults(all_duplicates, "hash")
    /\ calls = <<>>

\* C29: the groups of the size and the name method are never passed to the
\* resolver: with --delete, when neither the hash, the duration+frames nor
\* the duration method produced a group, no file is removed or marked for
\* removal.
C29_SizeAndNameGroupsNeverResolved ==
    /\ \A c \in 1..Len(calls) : \A e \in 1..Len(calls[c].plan) :
          calls[c].plan[e].key[1] \notin {"size", "group"}
    /\ target.method_name \notin {"size", "name"}
    /\ (args.delete /\ pc = "done" /\ Preferred = "") =>
          /\ calls = <<>>
          /\ target = NoTarget
          /\ exists = Paths

\* A finished --method size or --method name run with --delete and without
\* --dry-run that found groups.
C29_Witness ==
    /\ pc = "done"
    /\ args.delete
    /\ ~args.dry_run
    /\ args.method \in {"size", "name"}
    /\ HasResults(all_duplicates, args.method)
    /\ exists = Paths

----------------------------------------------------------------------------
(* The resolver called again and again                                     *)

\* C30: over any sequence of delete_duplicates calls, dry-run or real, on
\* the same group set, the kept file of every group is never removed; and
\* after the first real call in which every removal succeeded, each later
\* real call removes nothing and returns deletedCount = 0 and
\* failedCount = the sum over the groups of (members - 1).
C30_RepeatedResolveKeepsAndFails ==
    /\ \A i \in 1..Len(duplicates) :
          FileToKeep(video_files, duplicates[i].files) \in exists
    /\ \A c1, c2 \in 1..Len(calls) :
          (/\ c1 < c2
           /\ ~calls[c1].dry_run
           /\ calls[c1].failed_count = 0
           /\ ~calls[c2].dry_run)
          => /\ calls[c2].deleted_count = 0
             /\ calls[c2].failed_count = SumMembersMinusOne(duplicates)
             /\ calls[c2].after = calls[c2].before

\* Two real calls on groups with duplicates: the first removed them all,
\* the second found nothing left to remove.
C30_Witness ==
    /\ Len(calls) = 2
    /\ ~calls[1].dry_run
    /\ calls[1].deleted_count > 0
    /\ calls[1].failed_count = 0
    /\ ~calls[2].dry_run
    /\ calls[2].deleted_count = 0
    /\ calls[2].failed_count > 0

============================================================================
